---- MODULE Spec2Model ----
(***************************************************************************)
(* Model of fast_flights/core.py: the fetch orchestrator                   *)
(* get_flights_from_filter and the extraction engine parse_response with   *)
(* its field normalisers.                                                  *)
(*                                                                         *)
(* Texts are sequences of one-character strings.  Group and item indices   *)
(* are Python indices (0-based); position k of a TLA+ sequence is Python   *)
(* index k-1.                                                              *)
(***************************************************************************)
EXTENDS Integers, Sequences, FiniteSets, TLC

VARIABLES
    filter,      \* get_flights_from_filter: the caller's TFSData
    currency,    \* get_flights_from_filter: the caller's currency argument
    mode,        \* get_flights_from_filter: the caller's mode argument
    curMode,     \* mode of the invocation now running (the recursion changes it)
    curCurr,     \* currency of the invocation now running
    pc,          \* position in get_flights_from_filter
    res,         \* the Response held by the running invocation
    trace,       \* fetches issued and parses done so far, in order
    outcome,     \* what the caller receives: a Result or the exception raised
    r,           \* parse_response: its argument
    allow,       \* parse_response: dangerously_allow_looping_last_item
    s,           \* a text handed to a field normaliser
    ret          \* what parse_response or the normaliser returned or raised

vars == <<filter, currency, mode, curMode, curCurr, pc, res, trace, outcome,
          r, allow, s, ret>>

\* ---------------------------------------------------------------- bounds
MaxGroups == 2
MaxItems == 3
MaxBad == 1
MaxUrlLen == 10
MaxStopsLen == 4

\* ---------------------------------------------------------------- texts
Digits == {"0", "1", "2", "3", "4", "5", "6", "7", "8", "9"}
UpperLetters ==
    {"A", "B", "C", "D", "E", "F", "G", "H", "I", "J", "K", "L", "M",
     "N", "O", "P", "Q", "R", "S", "T", "U", "V", "W", "X", "Y", "Z"}
Whitespace == {" ", "\t", "\n"}

DigitValue(c) ==
    CASE c = "0" -> 0 [] c = "1" -> 1 [] c = "2" -> 2 [] c = "3" -> 3
      [] c = "4" -> 4 [] c = "5" -> 5 [] c = "6" -> 6 [] c = "7" -> 7
      [] c = "8" -> 8 [] c = "9" -> 9

\* All texts over alphabet A of length at most n.
TextsUpTo(A, n) == UNION {[1..k -> A] : k \in 0..n}

\* t[a..b], empty when a > b.
Slice(t, a, b) == [k \in 1..(b - a + 1) |-> t[a + k - 1]]

\* ------------------------------------------------- stop-count normaliser
\* stops.split(" ", 1)[0]: the text before the first space character.
SplitFirst(t) ==
    LET sp == {k \in 1..Len(t) : t[k] = " "}
    IN  IF sp = {} THEN t
        ELSE Slice(t, 1, (CHOOSE k \in sp : \A j \in sp : k <= j) - 1)

\* str.strip() as int() applies it to its argument.
RECURSIVE LStrip(_)
LStrip(t) == IF t # <<>> /\ Head(t) \in Whitespace THEN LStrip(Tail(t)) ELSE t

RECURSIVE RStrip(_)
RStrip(t) ==
    IF t # <<>> /\ t[Len(t)] \in Whitespace THEN RStrip(Slice(t, 1, Len(t) - 1)) ELSE t

Strip(t) == RStrip(LStrip(t))

HasSign(t) == t # <<>> /\ Head(t) \in {"+", "-"}

Unsigned(t) == IF HasSign(t) THEN Tail(t) ELSE t

\* The literal int() accepts in base 10: optional surrounding whitespace, an
\* optional sign, digits, single underscores only between digits.
IsIntLiteral(t) ==
    LET b == Unsigned(Strip(t))
    IN  /\ b # <<>>
        /\ \A k \in 1..Len(b) : b[k] \in Digits \cup {"_"}
        /\ b[1] \in Digits
        /\ b[Len(b)] \in Digits
        /\ \A k \in 1..(Len(b) - 1) : ~(b[k] = "_" /\ b[k + 1] = "_")

RECURSIVE DecimalValue(_, _)
DecimalValue(b, acc) ==
    IF b = <<>> THEN acc
    ELSE IF Head(b) = "_" THEN DecimalValue(Tail(b), acc)
    ELSE DecimalValue(Tail(b), 10 * acc + DigitValue(Head(b)))

IntOf(t) ==
    LET u == Strip(t)
        v == DecimalValue(Unsigned(u), 0)
    IN  IF HasSign(u) /\ Head(u) = "-" THEN 0 - v ELSE v

Nonstop == <<"N", "o", "n", "s", "t", "o", "p">>

StopsInt(n) == [isInt |-> TRUE, int |-> n, str |-> ""]
StopsUnknown == [isInt |-> FALSE, int |-> 0, str |-> "Unknown"]

\* stops_fmt: 0 for "Nonstop", int() of the first token, "Unknown" on ValueError.
stops_fmt(stops) ==
    IF stops = Nonstop THEN StopsInt(0)
    ELSE IF IsIntLiteral(SplitFirst(stops)) THEN StopsInt(IntOf(SplitFirst(stops)))
    ELSE StopsUnknown

\* ------------------------------------------------ airline-code decoding
IsCodeChar(c) == c \in UpperLetters \cup Digits

\* n digits start at position j of t and a "-" follows them.
DigitsThenDash(t, j, n) ==
    /\ j + n <= Len(t)
    /\ \A k \in 0..(n - 1) : t[j + k] \in Digits
    /\ t[j + n] = "-"

\* "-([A-Z0-9]{2})-" matches at position i of t.
CodeAt(t, i) ==
    /\ i + 3 <= Len(t)
    /\ t[i] = "-"
    /\ IsCodeChar(t[i + 1])
    /\ IsCodeChar(t[i + 2])
    /\ t[i + 3] = "-"

\* The pattern with \d{2,3} in place of \d{2,4}.
NumberLenUpTo3(t, i) ==
    IF ~CodeAt(t, i) THEN 0
    ELSE IF DigitsThenDash(t, i + 4, 3) THEN 3
    ELSE IF DigitsThenDash(t, i + 4, 2) THEN 2
    ELSE 0

\* The greedy \d{2,4}: the number of digits the pattern takes when it matches at
\* position i, 0 when it does not match there.
NumberLen(t, i) ==
    IF ~CodeAt(t, i) THEN 0
    ELSE IF DigitsThenDash(t, i + 4, 4) THEN 4
    ELSE IF DigitsThenDash(t, i + 4, 3) THEN 3
    ELSE IF DigitsThenDash(t, i + 4, 2) THEN 2
    ELSE 0

\* re.findall(pattern, t) scanning from position i: the groups of the
\* non-overlapping matches, left to right.
RECURSIVE FindAll(_, _)
FindAll(t, i) ==
    IF i > Len(t) THEN <<>>
    ELSE IF NumberLen(t, i) > 0
         THEN <<[code |-> Slice(t, i + 1, i + 2),
                 number |-> Slice(t, i + 4, i + 3 + NumberLen(t, i))]>>
              \o FindAll(t, i + 5 + NumberLen(t, i))
         ELSE FindAll(t, i + 1)

NoException == ""

\* extract_airline_code_and_flight_number: result[0] of an empty list raises
\* IndexError (after the print).
extract_airline_code_and_flight_number(t) ==
    LET result == FindAll(t, 1)
    IN  IF result = <<>>
        THEN [raised |-> "IndexError", code |-> <<>>, number |-> <<>>]
        ELSE [raised |-> NoException, code |-> result[1].code,
              number |-> result[1].number]

\* -------------------------------------------------------- parse_response
\* A Response's document, as far as parse_response reads it:
\*   qJTHM   the class attributes of its div[jsname="qJTHM"] nodes
\*   groups  its div[jsname="IWWDBc"], div[jsname="YdtKid"] nodes in document
\*           order, each the sequence of its "ul.Rk10dc li" items
\*   gOatQ   the text of span.gOatQ
\* An item: name, stops (text of .BbR8Ec .ogfYpf), NZRfve ("nonode" when
\* css_first finds none, "noattr" when the attribute is not in its attributes,
\* "novalue" when the attribute is empty (None), "value"), url (the value).
\* The other texts of an item are copied into the record unread.
DateTooFarClass == "FXkZv fXx9Lc"

\* The slice without the test on the group index.
RetainedItemsEveryGroup(i, items, allowLast) ==
    IF allowLast THEN items
    ELSE Slice(items, 1, Len(items) - 1)

\* fl.css("ul.Rk10dc li")[: (None if allow or i == 0 else -1)]
RetainedItems(i, items, allowLast) ==
    IF allowLast \/ i = 0 THEN items
    ELSE Slice(items, 1, Len(items) - 1)

\* The flag of the first item given to the first group only by its index test
\* being off by one.
is_best_flight_off_by_one(i) == i <= 1

is_best_flight(i) == i = 0

\* What evaluating item.css_first(".NZRfve").attributes[...] and the call on it
\* raises, NoException when it returns.
DecodeRaises(item) ==
    CASE item.NZRfve = "nonode" -> "AttributeError"
      [] item.NZRfve = "noattr" -> "KeyError"
      [] item.NZRfve = "novalue" -> "TypeError"
      [] OTHER -> extract_airline_code_and_flight_number(item.url).raised

\* The try/except around the decoding: except ValueError raises
\* FlightParsingError, any other exception propagates.
ItemRaises(item) ==
    IF DecodeRaises(item) = "ValueError" THEN "FlightParsingError"
    ELSE DecodeRaises(item)

FlightOf(i, item) ==
    [is_best |-> is_best_flight(i),
     name |-> item.name,
     stops |-> stops_fmt(item.stops),
     airline_code |-> extract_airline_code_and_flight_number(item.url).code,
     flight_number |-> extract_airline_code_and_flight_number(item.url).number]

Raise(e) == [kind |-> e, flights |-> <<>>, current_price |-> ""]

\* The inner loop over the retained items of group i, from item k on, flights
\* being the records appended so far; a raising item aborts the whole loop.
RECURSIVE ItemLoop(_, _, _, _)
ItemLoop(i, items, k, flights) ==
    IF k > Len(items) THEN [kind |-> "Result", flights |-> flights, current_price |-> ""]
    ELSE IF ItemRaises(items[k]) # NoException THEN Raise(ItemRaises(items[k]))
    ELSE ItemLoop(i, items, k + 1, Append(flights, FlightOf(i, items[k])))

\* The outer loop over the groups, from Python index i on.
RECURSIVE GroupLoop(_, _, _, _)
GroupLoop(groups, i, allowLast, flights) ==
    IF i >= Len(groups) THEN [kind |-> "Result", flights |-> flights, current_price |-> ""]
    ELSE LET g == ItemLoop(i, RetainedItems(i, groups[i + 1], allowLast), 1, flights)
         IN  IF g.kind # "Result" THEN g
             ELSE GroupLoop(groups, i + 1, allowLast, g.flights)

parse_response(doc, allowLast) ==
    IF DateTooFarClass \in doc.qJTHM THEN Raise("FlightDateTooFarError")
    ELSE IF doc.qJTHM = {} THEN Raise("FlightParsingError")
    ELSE LET g == GroupLoop(doc.groups, 0, allowLast, <<>>)
         IN  IF g.kind # "Result" THEN g
             ELSE [kind |-> "Result", flights |-> g.flights, current_price |-> doc.gOatQ]

\* ------------------------------------------------------ sample inputs
\* The variables a specification does not use keep these values.
NoDoc == [qJTHM |-> {}, groups |-> <<>>, gOatQ |-> ""]
NoOutcome == [kind |-> "none", flights |-> <<>>, current_price |-> ""]

IdleFetch ==
    /\ filter = "" /\ currency = "" /\ mode = "" /\ curMode = "" /\ curCurr = ""
    /\ res = NoDoc /\ trace = <<>> /\ outcome = NoOutcome
IdleParse == r = NoDoc /\ allow = FALSE
IdleText == s = <<>>

StopsAlphabet == {"0", "2", " ", "\t", "-", "+", "_", "s"}
StopsExamples ==
    {Nonstop,
     <<"2", " ", "s", "t", "o", "p", "s">>,
     <<"1", " ", "s", "t", "o", "p">>,
     <<"m", "y", "s", "t", "e", "r", "y">>}
StopsTexts == TextsUpTo(StopsAlphabet, MaxStopsLen) \cup StopsExamples

UrlAlphabet == {"-", "A", "7"}
UrlExamples ==
    {<<"-", "U", "A", "-", "1", "2", "3", "4", "-">>,
     <<"=", "J", "F", "K", "-", "L", "A", "X", "-", "U", "A", "-", "1", "2", "3", "4",
       "-", "2", "0", "2", "5">>,
     <<"-", "U", "A", "L", "-", "1", "2", "-">>,
     <<"-", "u", "a", "-", "1", "2", "-">>}
UrlTexts == TextsUpTo(UrlAlphabet, MaxUrlLen) \cup UrlExamples

\* ------------------------------------------- specification: stop counts
InitStops ==
    /\ IdleFetch /\ IdleParse
    /\ s \in StopsTexts
    /\ pc = "call"
    /\ ret = StopsUnknown

FormatStops ==
    /\ pc = "call"
    /\ ret' = stops_fmt(s)
    /\ pc' = "done"
    /\ UNCHANGED <<filter, currency, mode, curMode, curCurr, res, trace, outcome,
                   r, allow, s>>

NextStops == FormatStops
SpecStops == InitStops /\ [][NextStops]_vars

\* ------------------------------------ specification: airline-code decoding
InitUrl ==
    /\ IdleFetch /\ IdleParse
    /\ s \in UrlTexts
    /\ pc = "call"
    /\ ret = [raised |-> NoException, code |-> <<>>, number |-> <<>>]

DecodeUrl ==
    /\ pc = "call"
    /\ ret' = extract_airline_code_and_flight_number(s)
    /\ pc' = "done"
    /\ UNCHANGED <<filter, currency, mode, curMode, curCurr, res, trace, outcome,
                   r, allow, s>>

NextUrl == DecodeUrl
SpecUrl == InitUrl /\ [][NextUrl]_vars

\* -------------------------------------------- specification: extraction
\* Sample documents: a shape gives the number of items of each group; the
\* items are named by their place <<group, item>> (Python indices), and a
\* defect makes the decoding of chosen items fail in one of the ways below.
Shapes == UNION {[1..g -> 0..MaxItems] : g \in 0..MaxGroups}

Places(shape) ==
    {p \in (0..(MaxGroups - 1)) \X (0..(MaxItems - 1)) :
        p[1] < Len(shape) /\ p[2] < shape[p[1] + 1]}

BadKinds == {"nonode", "noattr", "novalue", "nomatch"}

Defects(shape) ==
    UNION {[B -> BadKinds] :
             B \in {b \in SUBSET Places(shape) : Cardinality(b) <= MaxBad}}

GoodUrls ==
    <<<<"-", "U", "A", "-", "1", "2", "3", "4", "-">>,
      <<"=", "L", "H", "R", "-", "U", "2", "-", "7", "7", "-", "2", "0", "2", "5">>,
      <<"-", "L", "H", "-", "4", "0", "0", "-", "x">>>>

NoMatchUrl == <<"-", "u", "a", "-", "1", "2", "-">>

StopsSamples ==
    <<Nonstop, <<"2", " ", "s", "t", "o", "p", "s">>, <<>>>>

SampleItem(p, defect) ==
    [name |-> p,
     stops |-> StopsSamples[(p[2] % Len(StopsSamples)) + 1],
     NZRfve |-> IF p \in DOMAIN defect /\ defect[p] # "nomatch" THEN defect[p]
                ELSE "value",
     url |-> IF p \in DOMAIN defect
             THEN (IF defect[p] = "nomatch" THEN NoMatchUrl ELSE <<>>)
             ELSE GoodUrls[(p[2] % Len(GoodUrls)) + 1]]

SampleDoc(shape, defect, q) ==
    [qJTHM |-> q,
     groups |-> [g \in 1..Len(shape) |->
                   [k \in 1..shape[g] |-> SampleItem(<<g - 1, k - 1>>, defect)]],
     gOatQ |-> "$100"]

InitParse ==
    /\ IdleFetch /\ IdleText
    /\ \E shape \in Shapes :
         \E defect \in Defects(shape) :
           \E q \in SUBSET {"", DateTooFarClass} :
             r = SampleDoc(shape, defect, q)
    /\ allow \in BOOLEAN
    /\ pc = "call"
    /\ ret = NoOutcome

ParseResponse ==
    /\ pc = "call"
    /\ ret' = parse_response(r, allow)
    /\ pc' = "done"
    /\ UNCHANGED <<filter, currency, mode, curMode, curCurr, res, trace, outcome,
                   r, allow, s>>

NextParse == ParseResponse
SpecParse == InitParse /\ [][NextParse]_vars

\* -------------------------------------- specification: the orchestrator
Modes == {"common", "fallback", "force-fallback", "local"}
Filters == {"tfs1", "tfs2"}
Currencies == {"", "USD", "EUR"}

NoDefect == <<>>

\* Documents a fetch may bring back: results, results of one offer, a page
\* without the qJTHM container, the date-too-far page, and pages with an item
\* whose identifier does not decode.
FetchDocs ==
    {SampleDoc(<<2, 3>>, NoDefect, {""}),
     SampleDoc(<<1>>, NoDefect, {""}),
     SampleDoc(<<1>>, NoDefect, {}),
     SampleDoc(<<>>, NoDefect, {DateTooFarClass}),
     SampleDoc(<<1>>, [p \in {<<0, 0>>} |-> "nomatch"], {""}),
     SampleDoc(<<1>>, [p \in {<<0, 0>>} |-> "nonode"], {""})}

\* fetch: the status codes the transport may answer with.
StatusCodes == {200, 403}

\* fallback_playwright_fetch and local_playwright_fetch: a Response, or an
\* exception of their own.
BrowserOutcomes == {"ok", "FetchError"}

\* params, built from the running invocation's arguments.
Params(f, c) == [tfs |-> f, hl |-> "en", tfu |-> "EgQIABABIgA", curr |-> c]

\* The fetch the mode dispatch of an invocation starts with.
Entry(m) ==
    IF m \in {"common", "fallback"} THEN "direct"
    ELSE IF m = "local" THEN "local"
    ELSE "remote"

\* The except clause without its test on the mode.
FallsBackInEveryMode(m) == TRUE

\* except AssertionError around fetch(): only mode fallback goes on.
FallsBack(m) == m = "fallback"

\* except RuntimeError around parse_response: the classes it catches.
IsRuntimeError(kind) == kind \in {"FlightParsingError", "FlightDateTooFarError"}

\* The test on the mode letting mode common through as well.
EscalatesInCommonToo(m) == m \in {"fallback", "common"}

\* if mode == "fallback": the recursive call.
Escalates(m) == m = "fallback"

\* The recursive call made with the remote browser's mode.
EscalationModeRemote == "force-fallback"

\* get_flights_from_filter(filter, mode="local", proxy=proxy): the mode it
\* passes, and the currency it does not pass (the default "").
EscalationMode == "local"
EscalationCurrency(c) == ""

Event(op, strategy, status) ==
    [op |-> op, strategy |-> strategy, params |-> Params(filter, curCurr),
     status |-> status]

Init ==
    /\ IdleParse /\ IdleText
    /\ filter \in Filters
    /\ currency \in Currencies
    /\ mode \in Modes
    /\ curMode = mode
    /\ curCurr = currency
    /\ pc = Entry(mode)
    /\ res = NoDoc
    /\ trace = <<>>
    /\ outcome = NoOutcome
    /\ ret = NoOutcome

\* res = fetch(params, proxy=proxy) with its except AssertionError clause.
FetchDirect ==
    /\ pc = "direct"
    /\ \E status \in StatusCodes, doc \in FetchDocs :
         IF status = 200
         THEN /\ trace' = Append(trace, Event("fetch", "direct", "ok"))
              /\ res' = doc
              /\ pc' = "parse"
              /\ UNCHANGED outcome
         ELSE /\ trace' = Append(trace, Event("fetch", "direct", "AssertionError"))
              /\ IF FallsBack(curMode)
                 THEN pc' = "remote" /\ UNCHANGED outcome
                 ELSE pc' = "done" /\ outcome' = Raise("AssertionError")
              /\ UNCHANGED res
    /\ UNCHANGED <<filter, currency, mode, curMode, curCurr, r, allow, s, ret>>

\* res = fallback_playwright_fetch(params), in the except clause or in the
\* else branch of the dispatch.
FetchRemote ==
    /\ pc = "remote"
    /\ \E o \in BrowserOutcomes, doc \in FetchDocs :
         /\ trace' = Append(trace, Event("fetch", "remote", o))
         /\ IF o = "ok"
            THEN res' = doc /\ pc' = "parse" /\ UNCHANGED outcome
            ELSE pc' = "done" /\ outcome' = Raise(o) /\ UNCHANGED res
    /\ UNCHANGED <<filter, currency, mode, curMode, curCurr, r, allow, s, ret>>

\* res = local_playwright_fetch(params)
FetchLocal ==
    /\ pc = "local"
    /\ \E o \in BrowserOutcomes, doc \in FetchDocs :
         /\ trace' = Append(trace, Event("fetch", "local", o))
         /\ IF o = "ok"
            THEN res' = doc /\ pc' = "parse" /\ UNCHANGED outcome
            ELSE pc' = "done" /\ outcome' = Raise(o) /\ UNCHANGED res
    /\ UNCHANGED <<filter, currency, mode, curMode, curCurr, r, allow, s, ret>>

\* The strategy that fetched the document now held.
LastStrategy == trace[Len(trace)].strategy

\* return parse_response(res) with its except RuntimeError clause: the
\* recursive call starts a new invocation whose result is the caller's.
Parse ==
    /\ pc = "parse"
    /\ LET p == parse_response(res, FALSE)
       IN  /\ trace' = Append(trace, Event("parse", LastStrategy, p.kind))
           /\ IF p.kind # "Result" /\ IsRuntimeError(p.kind) /\ Escalates(curMode)
              THEN /\ curMode' = EscalationMode
                   /\ curCurr' = EscalationCurrency(curCurr)
                   /\ pc' = Entry(EscalationMode)
                   /\ UNCHANGED outcome
              ELSE /\ outcome' = p
                   /\ pc' = "done"
                   /\ UNCHANGED <<curMode, curCurr>>
    /\ UNCHANGED <<filter, currency, mode, res, r, allow, s, ret>>

Next == FetchDirect \/ FetchRemote \/ FetchLocal \/ Parse

Spec == Init /\ [][Next]_vars

\* Each step is the next statement of a sequential program: it is taken.
FairSpec == Spec /\ WF_vars(Next)

\* ================================================================ claims
Level(strategy) ==
    CASE strategy = "direct" -> 0 [] strategy = "remote" -> 1 [] strategy = "local" -> 2

FetchAt == {i \in 1..Len(trace) : trace[i].op = "fetch"}
ParseAt == {i \in 1..Len(trace) : trace[i].op = "parse"}

\* i and j are fetches of the call with no fetch between them.
NextFetch(i, j) ==
    /\ i \in FetchAt /\ j \in FetchAt /\ i < j
    /\ \A k \in FetchAt : ~(i < k /\ k < j)

Failed(e) == (e.op = "fetch" /\ e.status # "ok") \/ (e.op = "parse" /\ e.status # "Result")

\* The last strategy of the chain of a mode.
ChainLast(m) ==
    CASE m = "common" -> "direct"
      [] m = "fallback" -> "local"
      [] m = "force-fallback" -> "remote"
      [] m = "local" -> "local"

\* C1: once parse_response has raised FlightDateTooFarError the call is over
\* in every mode: nothing is fetched or parsed after it and the caller
\* receives that error.
C1_DateTooFarIsTerminal ==
    \A i \in ParseAt :
        trace[i].status = "FlightDateTooFarError"
            => /\ i = Len(trace)
               /\ pc = "done"
               /\ outcome.kind = "FlightDateTooFarError"

\* C10: every fetch of a call is issued with the parameters of the first one.
C10_SameParamsOnEveryFetch ==
    \A i \in FetchAt : trace[i].params = trace[1].params

\* C4 as claimed: a fetch that follows another fetch of the same call uses
\* the strategy one level below its predecessor's in direct -> remote -> local.
C4_OneLevelPerRetry ==
    \A i, j \in 1..Len(trace) :
        NextFetch(i, j) => Level(trace[j].strategy) = Level(trace[i].strategy) + 1

\* C4 as amended: a fetch that follows another fetch of the same call uses a
\* strategy strictly deeper in the chain; the remote browser is fetched only
\* right after a failed direct fetch, and the local browser as an escalation
\* only right after the document of the preceding fetch (direct or remote)
\* failed to parse.
C4_DeeperPerRetry ==
    \A i, j \in 1..Len(trace) :
        NextFetch(i, j) =>
            /\ Level(trace[j].strategy) > Level(trace[i].strategy)
            /\ trace[j].strategy = "remote" =>
                   /\ j = i + 1
                   /\ trace[i].strategy = "direct"
                   /\ trace[i].status = "AssertionError"
            /\ trace[j].strategy = "local" =>
                   /\ j = i + 2
                   /\ trace[i].status = "ok"
                   /\ trace[i + 1].op = "parse"
                   /\ IsRuntimeError(trace[i + 1].status)

\* The local browser fetched right after a direct fetch whose document did
\* not parse.
C4_Witness ==
    /\ Len(trace) >= 3
    /\ trace[1].op = "fetch" /\ trace[1].strategy = "direct" /\ trace[1].status = "ok"
    /\ trace[2].op = "parse" /\ trace[2].status = "FlightParsingError"
    /\ trace[3].op = "fetch" /\ trace[3].strategy = "local"

\* C3: a FlightParsingError of the document the mode's own fetch brought back
\* is, in mode fallback, followed by exactly one more fetch, through the local
\* browser, and the caller receives what parsing its document gives (or the
\* error of that fetch when it brings no document); in the other modes it is
\* the caller's outcome and nothing is fetched after it.
C3_ParsingErrorEscalation ==
    \A i \in ParseAt :
        (trace[i].status = "FlightParsingError" /\ \A k \in ParseAt : i <= k) =>
            IF mode = "fallback"
            THEN LET later == {j \in FetchAt : j > i}
                 IN  /\ later \subseteq {i + 1}
                     /\ \A j \in later : trace[j].strategy = "local"
                     /\ (later = {}) = (pc = "local")
                     /\ pc = "done" =>
                            IF trace[i + 1].status = "ok"
                            THEN /\ Len(trace) = i + 2
                                 /\ trace[i + 2].op = "parse"
                                 /\ outcome.kind = trace[i + 2].status
                                 /\ outcome = parse_response(res, FALSE)
                            ELSE /\ Len(trace) = i + 1
                                 /\ outcome.kind = trace[i + 1].status
            ELSE /\ i = Len(trace)
                 /\ pc = "done"
                 /\ outcome.kind = "FlightParsingError"

\* Mode fallback: the first document does not parse, the local browser's does.
C3_Witness ==
    /\ mode = "fallback" /\ pc = "done"
    /\ Len(trace) = 4
    /\ trace[2].op = "parse" /\ trace[2].status = "FlightParsingError"
    /\ trace[3].op = "fetch" /\ trace[3].strategy = "local"
    /\ outcome.kind = "Result"

\* C9, the safety half: no strategy is fetched twice in a call, a finished
\* call has a Result or an error, and a failure at the last strategy of the
\* mode's chain is the last event of the call and the caller's outcome.
C9_AtMostOncePerStrategy ==
    /\ \A i, j \in FetchAt : trace[i].strategy = trace[j].strategy => i = j
    /\ pc = "done" => outcome.kind # "none"
    /\ \A i \in 1..Len(trace) :
           (Failed(trace[i]) /\ trace[i].strategy = ChainLast(mode)) =>
               /\ i = Len(trace)
               /\ pc = "done"
               /\ outcome.kind = trace[i].status

\* C9: every call of get_flights_from_filter ends, with a Result or an error,
\* after fetching each strategy at most once, and a failure at the last
\* strategy of its mode's chain is surfaced with no fetch after it.
C9_Terminates ==
    /\ []C9_AtMostOncePerStrategy
    /\ [][pc = "done" => UNCHANGED vars]_vars
    /\ <>(pc = "done")

\* The longest chain, ended by a failure at its last strategy.
C9_Witness ==
    /\ pc = "done"
    /\ Cardinality(FetchAt) = 3
    /\ Failed(trace[Len(trace)])
    /\ outcome.kind = trace[Len(trace)].status

\* ---------------------------------------------------- extraction claims
\* "-", c code characters, "-", n digits, "-" stand at position i of t.
Occurs(t, i, c, n) ==
    /\ i + c + n + 2 <= Len(t)
    /\ t[i] = "-"
    /\ \A k \in 1..c : IsCodeChar(t[i + k])
    /\ t[i + c + 1] = "-"
    /\ \A k \in 1..n : t[i + c + 1 + k] \in Digits
    /\ t[i + c + n + 2] = "-"

\* The occurrences <<position, code length, number length>> of -<CODE>-<NUMBER>-
\* in t, for codes of the lengths in cs.
Occurrences(t, cs) ==
    {o \in (1..Len(t)) \X cs \X (2..4) : Occurs(t, o[1], o[2], o[3])}

FirstOf(occ) == CHOOSE o \in occ : \A q \in occ : o[1] <= q[1]

CodeOf(t, o) == Slice(t, o[1] + 1, o[1] + o[2])
NumberOf(t, o) == Slice(t, o[1] + o[2] + 2, o[1] + o[2] + 1 + o[3])

\* The document passes the two marker checks.
Classified(doc) == DateTooFarClass \notin doc.qJTHM /\ doc.qJTHM # {}

\* Item k of group g is one the loop extracts.
Retained(doc, g, k, allowLast) ==
    /\ g \in 0..(Len(doc.groups) - 1)
    /\ k \in 0..(Len(doc.groups[g + 1]) - 1)
    /\ (g = 0 \/ allowLast \/ k < Len(doc.groups[g + 1]) - 1)

\* The node, the attribute or a -<CODE>-<NUMBER>- substring is missing.
Malformed(item) ==
    \/ item.NZRfve \in {"nonode", "noattr"}
    \/ item.NZRfve = "value" /\ Occurrences(item.url, 2..3) = {}

\* C2: when a retained item of a document that passes the marker checks has
\* no NZRfve node, no data-travelimpactmodelwebsiteurl attribute or no
\* -<CODE>-<NUMBER>- in its value, parse_response raises FlightParsingError.
C2_MalformedItemIsParsingError ==
    (pc = "done" /\ Classified(r)
        /\ \E g \in 0..(MaxGroups - 1), k \in 0..(MaxItems - 1) :
               Retained(r, g, k, allow) /\ Malformed(r.groups[g + 1][k + 1]))
    => ret.kind = "FlightParsingError"

\* The records of ret whose item belongs to group g, in order.
RecordsOf(g) == SelectSeq(ret.flights, LAMBDA f : f.name[1] = g)

\* The names of the first n items of group g.
FirstNames(g, n) == [k \in 1..n |-> <<g, k - 1>>]

Extracted == pc = "done" /\ ret.kind = "Result"

\* C5 as claimed: a successful parse yields N-1 records from a later group of
\* N items (N with the option set) and N from the first group.
C5_LaterGroupsDropLast ==
    Extracted =>
        \A g \in 0..(Len(r.groups) - 1) :
            LET N == Len(r.groups[g + 1])
            IN  Len(RecordsOf(g)) = IF g >= 1 /\ ~allow THEN N - 1 ELSE N

\* C5 as amended: a successful parse yields, from a later group of N >= 1
\* items, the records of its first N-1 items when the option is off, and of
\* all N when it is on; from an empty later group none; from the first group
\* all N.
C5_LaterGroupsDropLastIfAny ==
    Extracted =>
        \A g \in 0..(Len(r.groups) - 1) :
            LET N == Len(r.groups[g + 1])
                n == IF g >= 1 /\ ~allow /\ N >= 1 THEN N - 1 ELSE N
            IN  /\ Len(RecordsOf(g)) = n
                /\ [k \in 1..Len(RecordsOf(g)) |-> RecordsOf(g)[k].name]
                       = FirstNames(g, n)

\* A later group of three items parsed with the option off: two records.
C5_Witness ==
    /\ Extracted /\ ~allow
    /\ Len(r.groups) = 2
    /\ Len(r.groups[2]) = 3
    /\ Len(RecordsOf(1)) = 2

\* The well-formed document of C6: a best group of 2 items, then a group of 3.
TwoThenThree == r = SampleDoc(<<2, 3>>, NoDefect, {""}) /\ ~allow /\ pc = "done"

FourInOrder ==
    /\ ret.kind = "Result"
    /\ [k \in 1..Len(ret.flights) |-> ret.flights[k].name]
           = <<<<0, 0>>, <<0, 1>>, <<1, 0>>, <<1, 1>>>>

\* C6 as claimed: 4 flights in document order, only the first one best.
C6_OnlyFirstIsBest ==
    TwoThenThree =>
        /\ FourInOrder
        /\ [k \in 1..Len(ret.flights) |-> ret.flights[k].is_best]
               = <<TRUE, FALSE, FALSE, FALSE>>

\* C6 as amended: 4 flights in document order; the two of the best group have
\* isBest true, the two of the second group isBest false.
C6_FirstGroupIsBest ==
    TwoThenThree =>
        /\ FourInOrder
        /\ [k \in 1..Len(ret.flights) |-> ret.flights[k].is_best]
               = <<TRUE, TRUE, FALSE, FALSE>>

C6_Witness == TwoThenThree /\ Len(ret.flights) = 4

\* ----------------------------------------------------- normaliser claims
\* The text before the first whitespace character.
LeadingToken(t) ==
    LET ws == {k \in 1..Len(t) : t[k] \in Whitespace}
    IN  IF ws = {} THEN t
        ELSE Slice(t, 1, (CHOOSE k \in ws : \A j \in ws : k <= j) - 1)

\* C7: stop-count parsing gives a non-negative integer or "Unknown": 0 for
\* "Nonstop", the integer its leading whitespace-delimited token parses as,
\* "Unknown" for anything else.
C7_StopsNonNegativeOrUnknown ==
    pc = "done" =>
        /\ ret.isInt => ret.int >= 0
        /\ ~ret.isInt => ret.str = "Unknown"
        /\ ret = IF s = Nonstop THEN StopsInt(0)
                 ELSE IF IsIntLiteral(LeadingToken(s)) THEN StopsInt(IntOf(LeadingToken(s)))
                 ELSE StopsUnknown

\* The decoding returned the code and number of the leftmost occurrence.
ReturnsFirst(occ) ==
    /\ ret.raised = NoException
    /\ ret.code = CodeOf(s, FirstOf(occ))
    /\ ret.number = NumberOf(s, FirstOf(occ))

\* C8 as claimed: a value with a -<CODE>-<NUMBER>- whose CODE has two to three
\* characters decodes to the first such occurrence.
C8_DecodesTwoToThree ==
    (pc = "done" /\ Occurrences(s, 2..3) # {}) => ReturnsFirst(Occurrences(s, 2..3))

\* C8 as amended: a value with a -<CODE>-<NUMBER>- whose CODE has exactly two
\* characters (upper-case letters or digits) and whose NUMBER has two to four
\* digits decodes to the pair of the first such occurrence.
C8_DecodesTwo ==
    (pc = "done" /\ Occurrences(s, 2..2) # {}) => ReturnsFirst(Occurrences(s, 2..2))

\* A value with two occurrences that give different pairs.
C8_Witness ==
    /\ pc = "done"
    /\ \E o, q \in Occurrences(s, 2..2) : o[1] < q[1] /\ CodeOf(s, o) # CodeOf(s, q)
    /\ ret.raised = NoException

====
